---- MODULE Spec2Model ----
(***************************************************************************)
(* Model of src/myseotools.jsx: the generateContent retry loop, the four   *)
(* AI panels that call it, and the App tab switcher that mounts them.      *)
(***************************************************************************)
EXTENDS Integers, Sequences, FiniteSets, TLC

VARIABLES
    activeTab,  \* App's activeTab state: id of the tool whose component is mounted
    panel,      \* useState cells of the mounted component instance
    invs        \* every generateContent invocation started so far, in start order

vars == <<activeTab, panel, invs>>

(***************************************************************************)
(* JavaScript values of the response bodies, tagged by type.               *)
(***************************************************************************)
Undefined == [t |-> "undefined"]
JNull == [t |-> "null"]
JStr(s) == [t |-> "str", v |-> s]
JArr(s) == [t |-> "arr", v |-> s]
JObj(f) == [t |-> "obj", v |-> f]
EmptyObj == JObj([k \in {} |-> Undefined])
\* a body response.json() rejects on (not JSON, empty, or the read failed)
Unparsable == [t |-> "unparsable"]
\* the body of a response the code never reads
NotRead == [t |-> "notread"]

Nullish(x) == x.t \in {"undefined", "null"}

\* x || y takes y when x is falsy
Truthy(x) == ~Nullish(x) /\ ~(x.t = "str" /\ x.v = "")

\* x.k on a non-nullish x
Member(x, k) == IF x.t = "obj" /\ k \in DOMAIN x.v THEN x.v[k] ELSE Undefined

\* x?.k
OptMember(x, k) == IF Nullish(x) THEN Undefined ELSE Member(x, k)

\* x?.[0]
OptIndex0(x) ==
    IF x.t = "arr" /\ Len(x.v) >= 1 THEN x.v[1] ELSE Undefined

Value(v) == [kind |-> "return", value |-> v]
Throw(m) == [kind |-> "throw", message |-> m]

FallbackText == "No response generated."
GenericMessage == "API Request Failed"
SyntaxErrorMessage == "Unexpected token in JSON"
NullReadMessage == "Cannot read properties of null"
FetchFailedMessage == "Failed to fetch"

\* line 56: data.candidates?.[0]?.content?.parts?.[0]?.text || "No response generated."
ExtractTextMissesFallback(data) ==
    IF Nullish(data) THEN Throw(NullReadMessage)
    ELSE LET text == OptMember(OptIndex0(OptMember(OptMember(
                        OptIndex0(Member(data, "candidates")),
                        "content"), "parts")), "text")
         IN  Value(text)

ExtractText(data) ==
    IF Nullish(data) THEN Throw(NullReadMessage)
    ELSE LET text == OptMember(OptIndex0(OptMember(OptMember(
                        OptIndex0(Member(data, "candidates")),
                        "content"), "parts")), "text")
         IN  Value(IF Truthy(text) THEN text ELSE JStr(FallbackText))

\* line 52: new Error(errorData.error?.message || "API Request Failed")
ErrorMessage(errorData) ==
    IF Nullish(errorData) THEN NullReadMessage
    ELSE LET m == OptMember(Member(errorData, "error"), "message")
         IN  IF Truthy(m) THEN m.v ELSE GenericMessage

(***************************************************************************)
(* generateContent                                                         *)
(***************************************************************************)
delays == <<1000, 2000, 4000, 8000, 16000>>

\* response.ok
Ok(status) == status >= 200 /\ status <= 299

\* line 47
Retryable(status) == status = 429 \/ status >= 500

\* line 37: the loop condition i <= delays.length
LoopCondStrict(i) == i < Len(delays)

LoopCond(i) == i <= Len(delays)

\* line 59: i === delays.length
IsLastAttemptOffByOne(i) == i = Len(delays) + 1

IsLastAttempt(i) == i = Len(delays)

\* line 60: delays[i]; an index past the array reads undefined, which
\* setTimeout takes as 0
DelayAtConstant(i) == IF i + 1 \in DOMAIN delays THEN delays[1] ELSE 0

DelayAt(i) == IF i + 1 \in DOMAIN delays THEN delays[i + 1] ELSE 0

\* lines 30-33
Payload(prompt, systemInstruction) ==
    [contents |-> <<[parts |-> <<[text |-> prompt]>>]>>,
     systemInstruction |-> [parts |-> <<[text |-> systemInstruction]>>]]

FetchEvent(payload) == [op |-> "fetch", body |-> payload]
SleepEvent(ms) == [op |-> "sleep", ms |-> ms]

Attempt(status, body, result) == [status |-> status, body |-> body, result |-> result]

\* lines 26-39: the call runs synchronously up to the first await fetch
NewInvocation(owner, prompt, systemInstruction) ==
    LET payload == Payload(prompt, systemInstruction) IN
    [owner |-> owner, mounted |-> TRUE,
     prompt |-> prompt, systemInstruction |-> systemInstruction,
     payload |-> payload,
     i |-> 0, pc |-> "fetch", status |-> 0,
     log |-> <<FetchEvent(payload)>>,
     hist |-> <<>>,
     outcomes |-> <<>>]

\* line 56: return
Returned(inv, body, v) ==
    [inv EXCEPT !.pc = "done", !.status = 0,
                !.hist = Append(@, Attempt(inv.status, body, Value(v))),
                !.outcomes = Append(@, Value(v))]

\* lines 58-61 with the first error kept instead of the current one
CaughtKeepsFirst(inv, status, body, message) ==
    LET h == Append(inv.hist, Attempt(status, body, Throw(message))) IN
    IF IsLastAttempt(inv.i)
    THEN [inv EXCEPT !.pc = "done", !.status = 0, !.hist = h,
                     !.outcomes = Append(@, h[1].result)]
    ELSE [inv EXCEPT !.pc = "sleep", !.status = 0, !.hist = h,
                     !.log = Append(@, SleepEvent(DelayAt(inv.i)))]

\* lines 58-61: catch (error)
Caught(inv, status, body, message) ==
    LET h == Append(inv.hist, Attempt(status, body, Throw(message))) IN
    IF IsLastAttempt(inv.i)
    THEN [inv EXCEPT !.pc = "done", !.status = 0, !.hist = h,
                     !.outcomes = Append(@, Throw(message))]
    ELSE [inv EXCEPT !.pc = "sleep", !.status = 0, !.hist = h,
                     !.log = Append(@, SleepEvent(DelayAt(inv.i)))]

\* lines 39-49: await fetch settles; status 0 stands for a rejected fetch
AfterFetch(inv, status) ==
    IF status = 0 THEN Caught(inv, 0, NotRead, FetchFailedMessage)
    ELSE IF ~Ok(status)
         THEN IF Retryable(status)
              THEN Caught(inv, status, NotRead, "API Error: " \o ToString(status))
              ELSE [inv EXCEPT !.pc = "json_err", !.status = status]
         ELSE [inv EXCEPT !.pc = "json_ok", !.status = status]

\* lines 51-52 and 55-56: await response.json() settles
AfterJson(inv, body) ==
    IF body = Unparsable THEN Caught(inv, inv.status, body, SyntaxErrorMessage)
    ELSE IF inv.pc = "json_err"
         THEN Caught(inv, inv.status, body, ErrorMessage(body))
         ELSE LET r == ExtractText(body) IN
              IF r.kind = "throw"
              THEN Caught(inv, inv.status, body, r.message)
              ELSE Returned(inv, body, r.value)

\* lines 60 and 37: the timer resolves, i++, the loop condition is tested
AfterTimer(inv) ==
    LET j == inv.i + 1 IN
    IF LoopCond(j)
    THEN [inv EXCEPT !.i = j, !.pc = "fetch",
                     !.log = Append(@, FetchEvent(inv.payload))]
    ELSE [inv EXCEPT !.i = j, !.pc = "done",
                     !.outcomes = Append(@, [kind |-> "undefined"])]

(***************************************************************************)
(* The panels and the App shell                                            *)
(***************************************************************************)
\* lines 543-546 and 547-548: tools.slice(0, 4) are the AI panels
AiTabs == {"writer", "improver", "proofreader", "strategy"}
Tabs == AiTabs \cup {"counter", "trimmer"}

\* the useState initial values of a freshly mounted panel: the primary field
\* (topic, content, bizType), the remaining fields, result and loading
SecondaryDefaults(tab) ==
    CASE tab = "writer" -> <<"", "Professional">>     \* keywords, tone
      [] tab = "improver" -> <<"Readability">>        \* goal
      [] tab = "strategy" -> <<"", "">>               \* audience, goals
      [] OTHER -> <<>>

\* UrlTrimmer holds inputUrl and cleanedUrl (runs records what each cleanUrls
\* call read and wrote), WordCounter holds text
InitialPanel(tab) ==
    CASE tab = "trimmer" -> [inputUrl |-> <<>>, cleanedUrl |-> <<>>, runs |-> <<>>]
      [] tab = "counter" -> [text |-> <<>>]
      [] OTHER -> [primary |-> "", secondary |-> SecondaryDefaults(tab),
                   result |-> JStr(""), loading |-> FALSE]

\* the template literals that build prompt in each handler
Prompt(tab, p) ==
    CASE tab = "writer" ->
           "Topic: " \o p.primary \o "\nTarget Keywords: " \o p.secondary[1]
              \o "\nTone: " \o p.secondary[2]
      [] tab = "improver" ->
           "Content to Improve: " \o p.primary \o "\nGoal: " \o p.secondary[1]
      [] tab = "proofreader" -> "Text to Proofread: " \o p.primary
      [] tab = "strategy" ->
           "Business: " \o p.primary \o "\nAudience: " \o p.secondary[1]
              \o "\nGoals: " \o p.secondary[2]

\* the fixed systemInstruction of each handler, by its first sentence
SystemInstruction(tab) ==
    CASE tab = "writer" -> "You are a professional, industry-grade SEO Article Writer."
      [] tab = "improver" -> "You are an expert Content Editor and SEO Specialist."
      [] tab = "proofreader" -> "You are a strict and meticulous Proofreader using American English."
      [] tab = "strategy" -> "You are a Chief Marketing Officer (CMO)."

\* Button: disabled={disabled || loading}, with disabled={!topic}
ButtonDisabled(p) == p.primary = "" \/ p.loading

\* the handler after await generateContent(...): try / catch / finally.
\* The setters belong to the component instance that ran the handler; once
\* that instance is unmounted React drops their updates.
HandlerResume(p, inv) ==
    IF inv.owner = "direct" \/ ~inv.mounted THEN p
    ELSE LET o == inv.outcomes[Len(inv.outcomes)] IN
         [p EXCEPT !.loading = FALSE,
                   !.result = CASE o.kind = "return" -> o.value
                                [] o.kind = "throw" -> JStr("Error: " \o o.message)
                                [] OTHER -> Undefined]

\* Step with the loop index i shared by all invocations
StepSharedIndex(id, next) ==
    /\ invs' = [k \in DOMAIN invs |->
                  IF k = id THEN next
                  ELSE IF invs[k].pc = "done" THEN invs[k]
                  ELSE [invs[k] EXCEPT !.i = next.i]]
    /\ panel' = IF next.pc = "done" THEN HandlerResume(panel, next) ELSE panel
    /\ UNCHANGED activeTab

\* an invocation step, and the handler's continuation when it settles
Step(id, next) ==
    /\ invs' = [invs EXCEPT ![id] = next]
    /\ panel' = IF next.pc = "done" THEN HandlerResume(panel, next) ELSE panel
    /\ UNCHANGED activeTab

(***************************************************************************)
(* Strings of the utility panels. Their code works on the characters of a  *)
(* string (trim, split, URL parsing), so these strings are sequences of    *)
(* characters; a multi-letter element such as "keep" stands for a run of   *)
(* letters that is never split.                                            *)
(***************************************************************************)
\* \s among the characters in use
WhiteSpace == {" ", "\n"}

RECURSIVE TrimStart(_)
TrimStart(s) ==
    IF s # <<>> /\ Head(s) \in WhiteSpace THEN TrimStart(Tail(s)) ELSE s

RECURSIVE TrimEnd(_)
TrimEnd(s) ==
    IF s # <<>> /\ s[Len(s)] \in WhiteSpace
    THEN TrimEnd(SubSeq(s, 1, Len(s) - 1)) ELSE s

\* String.prototype.trim
Trim(s) == TrimEnd(TrimStart(s))

\* indexOf, 1-based; 0 when absent
IndexOf(s, c) ==
    IF \E n \in 1..Len(s) : s[n] = c
    THEN CHOOSE n \in 1..Len(s) : s[n] = c /\ \A m \in 1..(n - 1) : s[m] # c
    ELSE 0

\* s.split(c) for a one-character separator: at least one piece
RECURSIVE SplitOn(_, _)
SplitOn(s, c) ==
    LET n == IndexOf(s, c) IN
    IF n = 0 THEN <<s>>
    ELSE <<SubSeq(s, 1, n - 1)>> \o SplitOn(SubSeq(s, n + 1, Len(s)), c)

\* pieces.join(c)
RECURSIVE Join(_, _)
Join(pieces, c) ==
    IF pieces = <<>> THEN <<>>
    ELSE IF Len(pieces) = 1 THEN pieces[1]
    ELSE pieces[1] \o <<c>> \o Join(Tail(pieces), c)

(***************************************************************************)
(* new URL(...), url.searchParams and url.toString() of the platform, for  *)
(* the URLs in use: one origin, then path, ?query and #fragment.           *)
(***************************************************************************)
Origin == "https://a.com"

Absent == [has |-> FALSE, v |-> <<>>]
Present(v) == [has |-> TRUE, v |-> v]

\* the URL parser percent-encodes a space inside path, query and fragment
PercentEncode(s) == [n \in 1..Len(s) |-> IF s[n] = " " THEN "%20" ELSE s[n]]

\* new URL(s): fails unless s, stripped of surrounding white space, starts
\* with a scheme and host; an empty path becomes "/"
ParseUrl(s) ==
    LET t == Trim(s) IN
    IF t = <<>> \/ t[1] # Origin THEN [ok |-> FALSE]
    ELSE LET rest == Tail(t)
             h == IndexOf(rest, "#")
             beforeHash == IF h = 0 THEN rest ELSE SubSeq(rest, 1, h - 1)
             q == IndexOf(beforeHash, "?")
             path == IF q = 0 THEN beforeHash ELSE SubSeq(beforeHash, 1, q - 1)
         IN  [ok |-> TRUE,
              path |-> IF path = <<>> THEN <<"/">> ELSE PercentEncode(path),
              query |-> IF q = 0 THEN Absent
                        ELSE Present(PercentEncode(
                                 SubSeq(beforeHash, q + 1, Len(beforeHash)))),
              fragment |-> IF h = 0 THEN Absent
                           ELSE Present(PercentEncode(SubSeq(rest, h + 1, Len(rest))))]

\* url.toString(): the href
Href(url) ==
    <<Origin>> \o url.path
        \o (IF url.query.has THEN <<"?">> \o url.query.v ELSE <<>>)
        \o (IF url.fragment.has THEN <<"#">> \o url.fragment.v ELSE <<>>)

\* application/x-www-form-urlencoded decoding of a name or value
FormDecode(s) ==
    [n \in 1..Len(s) |-> CASE s[n] \in {"+", "%20"} -> " "
                            [] s[n] = "%3D" -> "="
                            [] s[n] = "%3F" -> "?"
                            [] OTHER -> s[n]]

\* its encoding: space as +, and = and ? escaped; letters, digits and _ stay
FormEncode(s) ==
    [n \in 1..Len(s) |-> CASE s[n] = " " -> "+"
                            [] s[n] = "=" -> "%3D"
                            [] s[n] = "?" -> "%3F"
                            [] OTHER -> s[n]]

\* one name=value piece of a query; a piece without = has an empty value
ParsePair(piece) ==
    LET e == IndexOf(piece, "=") IN
    IF e = 0 THEN [name |-> FormDecode(piece), value |-> <<>>]
    ELSE [name |-> FormDecode(SubSeq(piece, 1, e - 1)),
          value |-> FormDecode(SubSeq(piece, e + 1, Len(piece)))]

\* url.searchParams: the list of pairs of the query; empty pieces are skipped
SearchParams(url) ==
    IF ~url.query.has THEN <<>>
    ELSE LET pieces == SelectSeq(SplitOn(url.query.v, "&"), LAMBDA piece : piece # <<>>)
         IN  [n \in 1..Len(pieces) |-> ParsePair(pieces[n])]

\* a pair serialized without = when its value is empty
SerializePairBare(pair) ==
    IF pair.value = <<>> THEN FormEncode(pair.name)
    ELSE FormEncode(pair.name) \o <<"=">> \o FormEncode(pair.value)

SerializePair(pair) == FormEncode(pair.name) \o <<"=">> \o FormEncode(pair.value)

\* the update steps every searchParams mutation ends with: the query becomes
\* the serialized list, or null when the list is empty
UpdateQuery(url, list) ==
    [url EXCEPT !.query = IF list = <<>> THEN Absent
                          ELSE Present(Join([n \in 1..Len(list) |-> SerializePair(list[n])], "&"))]

\* searchParams.delete(param): every pair of that name goes, then update
DeleteParam(url, param) ==
    UpdateQuery(url, SelectSeq(SearchParams(url), LAMBDA pair : pair.name # <<param>>))

(***************************************************************************)
(* UrlTrimmer                                                              *)
(***************************************************************************)
\* line 188, without ref
paramsToRemoveShort ==
    <<"utm_source", "utm_medium", "utm_campaign", "utm_term", "utm_content",
      "fbclid", "gclid", "_ga">>

\* line 188
paramsToRemove ==
    <<"utm_source", "utm_medium", "utm_campaign", "utm_term", "utm_content",
      "fbclid", "gclid", "ref", "_ga">>

\* line 189: paramsToRemove.forEach(param => urlObj.searchParams.delete(param))
RECURSIVE DeleteEach(_, _)
DeleteEach(url, params) ==
    IF params = <<>> THEN url
    ELSE DeleteEach(DeleteParam(url, Head(params)), Tail(params))

InvalidMarker == " (Invalid URL)"

\* lines 181-195: the callback of lines.map
CleanLine(line) ==
    LET trimmedLine == Trim(line) IN
    IF trimmedLine = <<>> THEN <<>>
    ELSE LET urlObj == ParseUrl(trimmedLine) IN
         IF urlObj.ok THEN Href(DeleteEach(urlObj, paramsToRemove))
         ELSE trimmedLine \o <<InvalidMarker>>

\* lines 179-197: the text that setCleanedUrl receives
CleanText(inputUrl) ==
    LET lines == SplitOn(inputUrl, "\n")
        processed == [n \in 1..Len(lines) |-> CleanLine(lines[n])]
    IN  Join(processed, "\n")

(***************************************************************************)
(* WordCounter                                                             *)
(***************************************************************************)
\* s.split(/\s+/): the pieces between runs of white space
RECURSIVE SplitOnSpaces(_)
SplitOnSpaces(s) ==
    IF \E n \in 1..Len(s) : s[n] \in WhiteSpace
    THEN LET n == CHOOSE n \in 1..Len(s) :
                    s[n] \in WhiteSpace /\ \A m \in 1..(n - 1) : s[m] \notin WhiteSpace
         IN  <<SubSeq(s, 1, n - 1)>>
                \o SplitOnSpaces(TrimStart(SubSeq(s, n, Len(s))))
    ELSE <<s>>

\* s.split(/\n\s*\n/): the pieces between blank-line separators
RECURSIVE SplitOnBlankLines(_)
SplitOnBlankLines(s) ==
    LET Sep(n, m) == /\ n < m /\ s[n] = "\n" /\ s[m] = "\n"
                     /\ \A k \in (n + 1)..(m - 1) : s[k] \in WhiteSpace
        Starts == {n \in 1..Len(s) : \E m \in 1..Len(s) : Sep(n, m)}
    IN  IF Starts = {} THEN <<s>>
        ELSE LET n == CHOOSE n \in Starts : \A k \in Starts : n <= k
                 \* \s* is greedy: the separator ends at the last newline of the run
                 m == CHOOSE m \in 1..Len(s) :
                        Sep(n, m) /\ \A k \in 1..Len(s) : Sep(n, k) => k <= m
             IN  <<SubSeq(s, 1, n - 1)>> \o SplitOnBlankLines(SubSeq(s, m + 1, Len(s)))

\* Math.ceil(n / d) for n >= 0, d > 0
Ceil(n, d) == (n + d - 1) \div d

WordsPerMinute == 200

\* lines 227-233: stats
Stats(text) ==
    [words |-> IF Trim(text) = <<>> THEN 0 ELSE Len(SplitOnSpaces(Trim(text))),
     chars |-> Len(text),
     charsNoSpace |-> Len(SelectSeq(text, LAMBDA c : c \notin WhiteSpace)),
     paragraphs |-> IF Trim(text) = <<>> THEN 0 ELSE Len(SplitOnBlankLines(Trim(text))),
     readTime |-> ToString(Ceil(Len(SplitOnSpaces(Trim(text))), WordsPerMinute)) \o " min"]

(***************************************************************************)
(* Actions                                                                 *)
(***************************************************************************)
FetchSettles(id, status) ==
    /\ invs[id].pc = "fetch"
    /\ Step(id, AfterFetch(invs[id], status))

JsonSettles(id, body) ==
    /\ invs[id].pc \in {"json_err", "json_ok"}
    /\ Step(id, AfterJson(invs[id], body))

TimerFires(id) ==
    /\ invs[id].pc = "sleep"
    /\ Step(id, AfterTimer(invs[id]))

\* a caller outside the panels invokes generateContent once
Call(prompt, systemInstruction) ==
    /\ invs = <<>>
    /\ invs' = <<NewInvocation("direct", prompt, systemInstruction)>>
    /\ UNCHANGED <<activeTab, panel>>

MaxInvocations == 2

\* handleGenerate / handleImprove / handleProofread / handleStrategize, up to
\* the await: the click reaches the handler only while the button is enabled
Click ==
    /\ activeTab \in AiTabs
    /\ ~ButtonDisabled(panel)
    /\ panel.primary # ""
    /\ Len(invs) < MaxInvocations
    /\ panel' = [panel EXCEPT !.loading = TRUE]
    /\ invs' = Append(invs, NewInvocation(activeTab, Prompt(activeTab, panel),
                                          SystemInstruction(activeTab)))
    /\ UNCHANGED activeTab

\* onChange of the primary field
EditPrimary(text) ==
    /\ activeTab \in AiTabs
    /\ text # panel.primary
    /\ panel' = [panel EXCEPT !.primary = text]
    /\ UNCHANGED <<activeTab, invs>>

\* setActiveTab(tool.id): <ActiveComponent /> becomes another component type,
\* so the old panel is unmounted with its state and the new one mounts fresh
SetActiveTab(tab) ==
    /\ tab # activeTab
    /\ activeTab' = tab
    /\ panel' = InitialPanel(tab)
    /\ invs' = [id \in DOMAIN invs |-> [invs[id] EXCEPT !.mounted = FALSE]]

\* onChange of the UrlTrimmer text area: the user types into the empty field
SetInputUrl(texts) ==
    /\ activeTab = "trimmer"
    /\ panel.inputUrl = <<>>
    /\ \E text \in texts \ {<<>>} : panel' = [panel EXCEPT !.inputUrl = text]
    /\ UNCHANGED <<activeTab, invs>>

\* onChange again: the user replaces the input by the cleaned text shown
PasteCleaned ==
    /\ activeTab = "trimmer"
    /\ panel.runs # <<>>
    /\ panel.inputUrl # panel.cleanedUrl
    /\ panel' = [panel EXCEPT !.inputUrl = panel.cleanedUrl]
    /\ UNCHANGED <<activeTab, invs>>

MaxCleans == 2

\* cleanUrls, behind <Button onClick={cleanUrls} disabled={!inputUrl}>
CleanUrls ==
    /\ activeTab = "trimmer"
    /\ panel.inputUrl # <<>>
    /\ Len(panel.runs) < MaxCleans
    /\ LET cleaned == CleanText(panel.inputUrl) IN
       panel' = [panel EXCEPT !.cleanedUrl = cleaned,
                              !.runs = Append(@, [input |-> panel.inputUrl,
                                                  output |-> cleaned])]
    /\ UNCHANGED <<activeTab, invs>>

\* onChange of the WordCounter text area
SetText(texts) ==
    /\ activeTab = "counter"
    /\ \E text \in texts \ {panel.text} : panel' = [panel EXCEPT !.text = text]
    /\ UNCHANGED <<activeTab, invs>>

(***************************************************************************)
(* Specifications                                                          *)
(***************************************************************************)
Init ==
    /\ activeTab = "writer"
    /\ panel = InitialPanel("writer")
    /\ invs = <<>>

\* what the endpoint may answer: a rejected fetch (0) or an HTTP status
Statuses == {0, 200, 400, 429, 500}

TextBody(s) ==
    JObj([candidates |-> JArr(<<JObj([content |->
            JObj([parts |-> JArr(<<JObj([text |-> JStr(s)])>>)])])>>)])

MessageBody(m) == JObj([error |-> JObj([message |-> JStr(m)])])

\* bodies of a success-range response
OkBodies ==
    {Unparsable, JNull, EmptyObj,
     TextBody("Generated text"), TextBody(""),
     JObj([candidates |-> JArr(<<>>)]),
     JObj([candidates |-> JArr(<<JObj([content |-> EmptyObj])>>)])}

\* bodies of a response whose status is neither success, 429 nor 5xx
ErrBodies == {Unparsable, EmptyObj, MessageBody("API key not valid")}

BodiesAt(inv) == IF inv.pc = "json_err" THEN ErrBodies ELSE OkBodies

\* generateContent alone, called once
Next ==
    \/ Call("prompt", "instruction")
    \/ \E id \in DOMAIN invs, s \in Statuses : FetchSettles(id, s)
    \/ \E id \in DOMAIN invs : \E b \in BodiesAt(invs[id]) : JsonSettles(id, b)
    \/ \E id \in DOMAIN invs : TimerFires(id)

Spec == Init /\ [][Next]_vars

\* the panels in use: the user edits, clicks and switches between two AI
\* tabs while the endpoint rejects the fetch or answers 200 with a text
UITabs == {"writer", "improver"}

UIStatuses == {0, 200}

UIBodiesAt(inv) == {TextBody("Generated text")}

NextUI ==
    \/ \E tab \in UITabs : SetActiveTab(tab)
    \/ \E text \in {"", "seo"} : EditPrimary(text)
    \/ Click
    \/ \E id \in DOMAIN invs, s \in UIStatuses : FetchSettles(id, s)
    \/ \E id \in DOMAIN invs : \E b \in UIBodiesAt(invs[id]) : JsonSettles(id, b)
    \/ \E id \in DOMAIN invs : TimerFires(id)

SpecUI == Init /\ [][NextUI]_vars

\* the same, with each panel's handler run at most once: two invocations,
\* started from different panels, in flight together
NextPair ==
    \/ \E tab \in UITabs : SetActiveTab(tab)
    \/ \E text \in {"", "seo"} : EditPrimary(text)
    \/ (\A id \in DOMAIN invs : invs[id].owner # activeTab) /\ Click
    \/ \E id \in DOMAIN invs, s \in UIStatuses : FetchSettles(id, s)
    \/ \E id \in DOMAIN invs : \E b \in UIBodiesAt(invs[id]) : JsonSettles(id, b)
    \/ \E id \in DOMAIN invs : TimerFires(id)

SpecPair == Init /\ [][NextPair]_vars

\* the utility panels in use
RECURSIVE SeqsUpTo(_, _)
SeqsUpTo(S, n) ==
    IF n = 0 THEN {<<>>}
    ELSE LET shorter == SeqsUpTo(S, n - 1) IN
         shorter \cup {Append(s, c) : s \in shorter, c \in S}

MaxParams == 2
MaxLines == 2
MaxTextLen == 5

\* name=value pieces of the queries typed: tracked and other names, with and
\* without value, a space written %20 and +
QueryPieces ==
    {<<"utm_source", "=", "y">>, <<"ref", "=", "1">>, <<"keep">>, <<"keep", "=">>,
     <<"keep", "=", "y", "%20", "1">>, <<"keep", "=", "y", "+", "1">>}

Queries ==
    {<<>>, <<"?">>} \cup
    {<<"?">> \o Join(ps, "&") : ps \in SeqsUpTo(QueryPieces, MaxParams) \ {<<>>}}

UrlCores ==
    {<<Origin>> \o path \o query \o fragment :
        path \in {<<>>, <<"/x">>}, query \in Queries, fragment \in {<<>>, <<"#", "ref">>}}

InvalidCores == {<<"not", " ", "a", " ", "url">>, <<"/x", "?", "ref", "=", "1">>}

\* a line as typed, or with white space before it, or after it
Padded(core) == {core, <<" ">> \o core, core \o <<" ">>}

UrlLines == UNION {Padded(core) : core \in UrlCores \cup InvalidCores}

FewLines ==
    {<<>>, <<" ">>, <<" ", "not">>,
     <<Origin, "/x", "?", "utm_source", "=", "y", "&", "keep", "=", "1">>,
     <<Origin, "?", "keep">>}

UrlTexts ==
    UrlLines \cup
    {Join(ls, "\n") : ls \in SeqsUpTo(FewLines, MaxLines) \ {<<>>}}

HelloWorld == <<"h", "e", "l", "l", "o", " ", "w", "o", "r", "l", "d">>

CounterTexts == SeqsUpTo({"a", " ", "\n"}, MaxTextLen) \cup {HelloWorld}

NextTrimmer ==
    \/ SetActiveTab("trimmer")
    \/ SetInputUrl(UrlTexts)
    \/ PasteCleaned
    \/ CleanUrls

SpecTrimmer == Init /\ [][NextTrimmer]_vars

NextCounter ==
    \/ SetActiveTab("counter")
    \/ SetText(CounterTexts)

SpecCounter == Init /\ [][NextCounter]_vars

\* each fetch, each body read and each backoff timer eventually completes
FairSpec ==
    /\ Spec
    /\ WF_vars(\E id \in DOMAIN invs, s \in Statuses : FetchSettles(id, s))
    /\ WF_vars(\E id \in DOMAIN invs : \E b \in BodiesAt(invs[id]) : JsonSettles(id, b))
    /\ WF_vars(\E id \in DOMAIN invs : TimerFires(id))

(***************************************************************************)
(* Properties of generateContent                                           *)
(***************************************************************************)
Fetches(inv) == SelectSeq(inv.log, LAMBDA e : e.op = "fetch")
SleepEvents(inv) == SelectSeq(inv.log, LAMBDA e : e.op = "sleep")
Sleeps(inv) == [n \in 1..Len(SleepEvents(inv)) |-> SleepEvents(inv)[n].ms]
IsPrefix(s, t) == Len(s) <= Len(t) /\ \A n \in 1..Len(s) : s[n] = t[n]

\* the classes of attempt outcomes
TerminalStatus(status) == status # 0 /\ ~Ok(status) /\ status # 429 /\ status < 500
RetryableFailure(a) == a.status = 0 \/ a.status = 429 \/ a.status >= 500
RetryableError(a) ==
    IF a.status = 0 THEN FetchFailedMessage ELSE "API Error: " \o ToString(a.status)

\* fetch, sleep d1, fetch, sleep d2, ..., fetch: k sleeps between k+1 fetches
Alternation(payload, ds) ==
    [n \in 1..(2 * Len(ds) + 1) |->
        IF n % 2 = 1 THEN FetchEvent(payload) ELSE SleepEvent(ds[n \div 2])]

\* C1: an attempt that receives a non-success status other than 429 and 5xx
\* is the last one: the invocation has failed, with as many fetches as
\* attempts so far and no sleep after that attempt.
C1_TerminalStatusFailsImmediately ==
    \A id \in DOMAIN invs :
        LET inv == invs[id] IN
        \A j \in 1..Len(inv.hist) :
            TerminalStatus(inv.hist[j].status) =>
                /\ inv.pc = "done"
                /\ Len(inv.hist) = j
                /\ Len(inv.outcomes) = 1 /\ inv.outcomes[1].kind = "throw"
                /\ Len(Fetches(inv)) = j
                /\ Len(Sleeps(inv)) = j - 1

\* C2: k <= 5 retryable failures (429, 5xx, rejected fetch) followed by a
\* success give exactly k+1 fetches with the sleeps delays[0..k-1] between
\* them, in order, and the value extracted from the last response.
C2_RetriesThenSuccess ==
    \A id \in DOMAIN invs :
        LET inv == invs[id]
            k == Len(inv.hist) - 1
        IN  ( /\ Len(inv.hist) >= 1
              /\ \A j \in 1..k : RetryableFailure(inv.hist[j])
              /\ inv.hist[k + 1].result.kind = "return" ) =>
                /\ k <= 5
                /\ inv.pc = "done"
                /\ inv.log = Alternation(inv.payload, SubSeq(<<1000, 2000, 4000, 8000, 16000>>, 1, k))
                /\ inv.outcomes = <<ExtractText(inv.hist[k + 1].body)>>

C2_Witness ==
    \E id \in DOMAIN invs :
        LET inv == invs[id] IN
        /\ Len(inv.hist) = 6 /\ inv.pc = "done"
        /\ \A j \in 1..5 : RetryableFailure(inv.hist[j])
        /\ {inv.hist[j].status : j \in 1..5} = {0, 429, 500}
        /\ inv.hist[6].result = Value(JStr("Generated text"))

\* C3: six retryable failures in a row give exactly 6 fetches, the 5 sleeps
\* 1000, 2000, 4000, 8000, 16000 between them, none after the sixth, and
\* the error of the sixth attempt as the failure.
C3_SixRetryableFailures ==
    \A id \in DOMAIN invs :
        LET inv == invs[id] IN
        ( /\ Len(inv.hist) >= 6
          /\ \A j \in 1..6 : RetryableFailure(inv.hist[j]) ) =>
            /\ inv.pc = "done"
            /\ Len(inv.hist) = 6
            /\ inv.log = Alternation(inv.payload, <<1000, 2000, 4000, 8000, 16000>>)
            /\ inv.outcomes = <<Throw(RetryableError(inv.hist[6]))>>

C3_Witness ==
    \E id \in DOMAIN invs :
        LET inv == invs[id] IN
        /\ Len(inv.hist) = 6 /\ inv.pc = "done"
        /\ \A j \in 1..6 : RetryableFailure(inv.hist[j])
        /\ inv.hist[1].status = 0 /\ inv.hist[5].status = 429 /\ inv.hist[6].status = 500

\* C4: whatever the attempts' outcomes, an invocation sends at most 6
\* fetches and sleeps at most 5 times, and the sleeps issued so far are a
\* prefix of 1000, 2000, 4000, 8000, 16000.
C4_BoundedAttempts ==
    \A id \in DOMAIN invs :
        LET inv == invs[id] IN
        /\ Len(Fetches(inv)) <= 6
        /\ Len(Sleeps(inv)) <= 5
        /\ IsPrefix(Sleeps(inv), <<1000, 2000, 4000, 8000, 16000>>)

C4_Witness ==
    \E id \in DOMAIN invs :
        LET inv == invs[id] IN
        /\ inv.pc = "done"
        /\ Len(Fetches(inv)) = 6 /\ Len(Sleeps(inv)) = 5
        /\ {inv.hist[j].status : j \in 1..6} = {0, 200, 400, 429, 500}

\* C5: if every fetch, body read and timer completes, an invocation that
\* was started eventually finishes; a finished invocation has produced
\* exactly one outcome, a returned value or a thrown error; and nothing
\* about it changes afterwards.
C5_ExactlyOneOutcome ==
    /\ (invs # <<>>) ~> (\A id \in DOMAIN invs : invs[id].pc = "done")
    /\ [](\A id \in DOMAIN invs :
            /\ Len(invs[id].outcomes) <= 1
            /\ invs[id].pc = "done" =>
                 /\ Len(invs[id].outcomes) = 1
                 /\ invs[id].outcomes[1].kind \in {"return", "throw"})
    /\ [][\A id \in DOMAIN invs :
            invs[id].pc = "done" => invs'[id] = invs[id]]_vars

C5_Witness ==
    \E id \in DOMAIN invs :
        /\ invs[id].pc = "done"
        /\ Len(invs[id].hist) = 6
        /\ invs[id].outcomes[1].kind = "throw"

\* the text at candidates[0].content.parts[0].text, Undefined when the path
\* is absent
FirstText(body) ==
    OptMember(OptIndex0(OptMember(OptMember(OptIndex0(OptMember(body,
        "candidates")), "content"), "parts")), "text")

NoSleepAfter(inv, j) ==
    /\ inv.pc = "done"
    /\ Len(inv.hist) = j
    /\ Len(Fetches(inv)) = j
    /\ Len(Sleeps(inv)) = j - 1

\* C6 as stated: an attempt that receives a success-range status ends the
\* invocation as a success, with no sleep and no further attempt, returning
\* the first candidate's first part's text when that path is present and
\* "No response generated." when it is absent.
C6_SuccessStatusEndsInvocation ==
    \A id \in DOMAIN invs :
        LET inv == invs[id] IN
        \A j \in 1..Len(inv.hist) :
            Ok(inv.hist[j].status) =>
                /\ NoSleepAfter(inv, j)
                /\ inv.outcomes =
                     <<Value(IF FirstText(inv.hist[j].body) # Undefined
                             THEN FirstText(inv.hist[j].body)
                             ELSE JStr("No response generated."))>>

\* C6 amended: an attempt that receives a success-range status and whose
\* body parses to a value other than null ends the invocation as a success,
\* with no sleep and no further attempt, returning the first candidate's
\* first part's text when that path is present and not empty, and
\* "No response generated." otherwise.
C6_ParsedSuccessEndsInvocation ==
    \A id \in DOMAIN invs :
        LET inv == invs[id] IN
        \A j \in 1..Len(inv.hist) :
            (Ok(inv.hist[j].status) /\ inv.hist[j].body \notin {Unparsable, JNull}) =>
                /\ NoSleepAfter(inv, j)
                /\ inv.outcomes =
                     <<Value(IF FirstText(inv.hist[j].body) \notin {Undefined, JStr("")}
                             THEN FirstText(inv.hist[j].body)
                             ELSE JStr("No response generated."))>>

C6_Witness ==
    \E id \in DOMAIN invs :
        LET inv == invs[id] IN
        /\ Len(inv.hist) = 3 /\ inv.pc = "done"
        /\ inv.hist[3].status = 200
        /\ inv.hist[3].body = JObj([candidates |-> JArr(<<>>)])
        /\ inv.outcomes = <<Value(JStr("No response generated."))>>

\* the message at error.message of a parsed body, Undefined when absent
BodyMessage(body) == OptMember(OptMember(body, "error"), "message")

\* C7: an invocation that fails on a non-success status other than 429 and
\* 5xx throws the body's error.message when the body has one, and
\* "API Request Failed" otherwise, also when the body cannot be parsed.
C7_TerminalMessage ==
    \A id \in DOMAIN invs :
        LET inv == invs[id]
            n == Len(inv.hist)
        IN  ( /\ inv.pc = "done" /\ n >= 1
              /\ TerminalStatus(inv.hist[n].status) ) =>
                inv.outcomes =
                    <<Throw(IF BodyMessage(inv.hist[n].body) \notin {Undefined, JStr("")}
                            THEN BodyMessage(inv.hist[n].body).v
                            ELSE "API Request Failed")>>

(***************************************************************************)
(* Properties of the panels                                                *)
(***************************************************************************)
\* what the handler shows for an outcome
Shown(o) ==
    IF o.kind = "return" THEN o.value ELSE JStr("Error: " \o o.message)

\* C8: a handler sets loading to true as it starts the invocation; when the
\* invocation settles, the panel's result is the returned text, or "Error: "
\* followed by the failure's message, and its loading is false again.
C8_HandlerShowsOutcome ==
    [][/\ Len(invs') > Len(invs) => panel'.loading
       /\ \A id \in DOMAIN invs :
            ( /\ invs[id].owner \in AiTabs
              /\ invs[id].pc # "done" /\ invs'[id].pc = "done" ) =>
                /\ activeTab' = invs[id].owner
                /\ panel'.result = Shown(invs'[id].outcomes[1])
                /\ ~panel'.loading]_vars

\* C9: a panel never has two invocations outstanding.
C9_OneOutstandingPerPanel ==
    \A tab \in AiTabs :
        Cardinality({id \in DOMAIN invs :
                        invs[id].owner = tab /\ invs[id].pc # "done"}) <= 1

\* generateContent run alone on the given attempts' responses
RECURSIVE RunAlone(_, _)
RunAlone(inv, attempts) ==
    IF attempts = <<>> THEN inv
    ELSE LET a == Head(attempts)
             woken == IF inv.pc = "sleep" THEN AfterTimer(inv) ELSE inv
             fetched == AfterFetch(woken, a.status)
             settled == IF fetched.pc \in {"json_err", "json_ok"}
                        THEN AfterJson(fetched, a.body) ELSE fetched
         IN  RunAlone(settled, Tail(attempts))

\* C10: whatever the interleaving, each invocation is where it would be had
\* it run alone on its own attempts' responses (same fetches, same sleeps,
\* same outcome), and each of its fetches carries the prompt and
\* systemInstruction it was called with.
C10_Independent ==
    \A id \in DOMAIN invs :
        LET inv == invs[id]
            alone == RunAlone(NewInvocation(inv.owner, inv.prompt, inv.systemInstruction),
                              inv.hist)
            now == IF alone.pc = "sleep" /\ inv.pc # "sleep" THEN AfterTimer(alone) ELSE alone
        IN  /\ inv.log = now.log
            /\ inv.i = now.i
            /\ inv.hist = now.hist
            /\ inv.outcomes = now.outcomes
            /\ inv.payload = Payload(inv.prompt, inv.systemInstruction)
            /\ inv.prompt = Prompt(inv.owner, [InitialPanel(inv.owner) EXCEPT !.primary = "seo"])
            /\ inv.systemInstruction = SystemInstruction(inv.owner)
            /\ \A n \in 1..Len(Fetches(inv)) : Fetches(inv)[n].body = inv.payload
            /\ inv.pc = "done" => now.pc = "done"

C10_Witness ==
    /\ Len(invs) >= 2
    /\ invs[1].owner # invs[2].owner
    /\ invs[1].pc = "sleep" /\ invs[1].i = 3
    /\ invs[2].pc = "json_ok" /\ invs[2].i = 1

(***************************************************************************)
(* Properties of UrlTrimmer                                                *)
(***************************************************************************)
Runs == IF activeTab = "trimmer" THEN panel.runs ELSE <<>>
InLines(run) == SplitOn(run.input, "\n")
OutLines(run) == SplitOn(run.output, "\n")
IsUrlLine(line) == Trim(line) # <<>> /\ ParseUrl(line).ok
Tracked ==
    {<<"utm_source">>, <<"utm_medium">>, <<"utm_campaign">>, <<"utm_term">>,
     <<"utm_content">>, <<"fbclid">>, <<"gclid">>, <<"ref">>, <<"_ga">>}
Untracked(line) ==
    \A n \in 1..Len(SearchParams(ParseUrl(line))) :
        SearchParams(ParseUrl(line))[n].name \notin Tracked

\* C11: the output line of a line that parses as a URL is a URL with the
\* same origin, path and fragment whose query parameters are those of the
\* input, in order and with their values, minus every parameter named
\* utm_source, utm_medium, utm_campaign, utm_term, utm_content, fbclid,
\* gclid, ref or _ga; "https://a.com/x?utm_source=y&keep=1" gives
\* "https://a.com/x?keep=1".
C11_TrackedParamsRemoved ==
    \A r \in 1..Len(Runs) :
        LET run == Runs[r] IN
        /\ Len(OutLines(run)) = Len(InLines(run))
        /\ \A n \in 1..Len(InLines(run)) :
             IsUrlLine(InLines(run)[n]) =>
                LET in == ParseUrl(InLines(run)[n])
                    out == ParseUrl(OutLines(run)[n])
                IN  /\ out.ok
                    /\ OutLines(run)[n] = Href(out)
                    /\ out.path = in.path /\ out.fragment = in.fragment
                    /\ SearchParams(out) =
                         SelectSeq(SearchParams(in), LAMBDA pair : pair.name \notin Tracked)
        /\ run.input = <<Origin, "/x", "?", "utm_source", "=", "y", "&", "keep", "=", "1">>
             => run.output = <<Origin, "/x", "?", "keep", "=", "1">>

C11_Witness ==
    \E r \in 1..Len(Runs) :
        /\ Runs[r].input = <<" ", Origin, "/x", "?", "ref", "=", "1", "&", "keep", "=",
                             "y", "%20", "1", "#", "ref">>
        /\ Runs[r].output = <<Origin, "/x", "?", "keep", "=", "y", "+", "1", "#", "ref">>

\* C12: the output line of a non-blank line that does not parse as a URL is
\* that line unchanged followed by " (Invalid URL)", also when the line has
\* leading or trailing white space, whatever the other lines are.
C12_InvalidLineKept ==
    \A r \in 1..Len(Runs) :
        LET run == Runs[r] IN
        /\ Len(OutLines(run)) = Len(InLines(run))
        /\ \A n \in 1..Len(InLines(run)) :
             (Trim(InLines(run)[n]) # <<>> /\ ~ParseUrl(InLines(run)[n]).ok) =>
                OutLines(run)[n] = InLines(run)[n] \o <<" (Invalid URL)">>

\* C13 as stated: a URL line without tracked parameters that is its own
\* canonical serialization (href) comes out unchanged, and cleaning the
\* output of a URL line again gives that output.
Recleaned(r) ==
    r + 1 <= Len(Runs) /\ Runs[r + 1].input = Runs[r].output =>
        \A n \in 1..Len(InLines(Runs[r])) :
            IsUrlLine(InLines(Runs[r])[n]) =>
                OutLines(Runs[r + 1])[n] = OutLines(Runs[r])[n]

C13_CanonicalUrlUnchanged ==
    \A r \in 1..Len(Runs) :
        /\ \A n \in 1..Len(InLines(Runs[r])) :
             LET line == InLines(Runs[r])[n] IN
             (IsUrlLine(line) /\ Untracked(line) /\ Href(ParseUrl(line)) = line) =>
                OutLines(Runs[r])[n] = line
        /\ Recleaned(r)

\* a query written the way the form-urlencoded serializer writes it:
\* name=value pieces joined by &, no empty piece, every piece with its =,
\* a space written +, no further = or ? in a piece
FormEncodedQuery(url) ==
    url.query.has =>
        \A piece \in {SplitOn(url.query.v, "&")[k] : k \in 1..Len(SplitOn(url.query.v, "&"))} :
            /\ piece # <<>>
            /\ IndexOf(piece, "=") # 0
            /\ \A k \in 1..Len(piece) :
                 /\ piece[k] \notin {" ", "%20", "?"}
                 /\ piece[k] = "=" => k = IndexOf(piece, "=")

\* C13 amended: a URL line without tracked parameters that is its own
\* canonical serialization and whose query, if it has one, is written in
\* form-urlencoded serialization comes out unchanged, and cleaning the
\* output of a URL line again gives that output.
C13_FormEncodedUrlUnchanged ==
    \A r \in 1..Len(Runs) :
        /\ \A n \in 1..Len(InLines(Runs[r])) :
             LET line == InLines(Runs[r])[n] IN
             ( /\ IsUrlLine(line) /\ Untracked(line)
               /\ Href(ParseUrl(line)) = line
               /\ FormEncodedQuery(ParseUrl(line)) ) =>
                OutLines(Runs[r])[n] = line
        /\ Recleaned(r)

C13_Witness ==
    /\ Len(Runs) = 2
    /\ Runs[1].input = <<Origin, "?", "keep", "&", "ref", "=", "1">>
    /\ Runs[1].output = <<Origin, "/", "?", "keep", "=">>
    /\ Runs[2].input = Runs[1].output
    /\ Runs[2].output = Runs[1].output

(***************************************************************************)
(* Properties of WordCounter                                               *)
(***************************************************************************)
\* C14: the reading time shown is ceiling(words / 200) minutes of the word
\* count shown: "0 min" for a text without words, and words = 2 with
\* "1 min" for "hello world".
C14_ReadTimeOfWords ==
    activeTab = "counter" =>
        LET stats == Stats(panel.text) IN
        /\ stats.readTime = ToString((stats.words + 199) \div 200) \o " min"
        /\ stats.words = 0 => stats.readTime = "0 min"
        /\ panel.text = HelloWorld => stats.words = 2 /\ stats.readTime = "1 min"

====
